---------------------------- MODULE Spec2Model ----------------------------
(***************************************************************************)
(* Model of the electrical inventory command interpreter                  *)
(* (src/inventory_repl.py): the RangeSpec and Part models, the JSON-backed *)
(* store, the actions and the read-eval loop.                              *)
(*                                                                         *)
(* Representation.                                                         *)
(*  - A text (Python str) is a sequence of one-character strings.          *)
(*  - A float is a pair <<"f", v>> with v an integer, or NaN.              *)
(*  - A JSON scalar in an "id" field is <<"int", n>> or <<"str", 0>> (a    *)
(*    string that int() rejects).                                          *)
(*  - A dict is a function over the set of keys it holds, so that a        *)
(*    missing key is a key outside DOMAIN.                                 *)
(***************************************************************************)
EXTENDS Integers, Sequences, FiniteSets, TLC

VARIABLES
    file,      \* content of inventory.json as the file system holds it
    db,        \* the dict bound to `db` in repl()
    pc,        \* where the program is: "prompt", "add", "edit", "exited", "crashed", "probe", "probed"
    target,    \* index (1-based) of the record action_edit is prompting for, 0 if none
    last,      \* the command last processed and what it printed
    writes,    \* number of save_db calls made by the command in progress / last processed
    assigned,  \* the ids handed out by next_id to created records so far
    probe      \* argument and result of a function applied on its own

vars == <<file, db, pc, target, last, writes, assigned, probe>>

---------------------------------------------------------------------------
(* Bounds of the model *)

MaxQty == 2        \* largest quantity a record is followed up to
MaxId == 2         \* largest id a record is followed up to

---------------------------------------------------------------------------
(* Texts *)

DB_VERSION == 1

Digit == <<"0", "1", "2", "3", "4", "5", "6", "7", "8", "9">>

IsSpace(c) == c = " "

\* str.lower() on the characters the model uses
LowerChar(c) ==
    CASE c = "R" -> "r"
      [] c = "S" -> "s"
      [] c = "K" -> "k"
      [] c = "V" -> "v"
      [] c = "A" -> "a"
      [] c = "N" -> "n"
      [] c = "M" -> "m"
      [] OTHER -> c

Lower(s) == [i \in 1..Len(s) |-> LowerChar(s[i])]

RECURSIVE LStrip(_)
LStrip(s) == IF s # <<>> /\ IsSpace(Head(s)) THEN LStrip(Tail(s)) ELSE s

RECURSIVE RStrip(_)
RStrip(s) ==
    IF s # <<>> /\ IsSpace(s[Len(s)]) THEN RStrip(SubSeq(s, 1, Len(s) - 1)) ELSE s

\* str.strip()
Strip(s) == RStrip(LStrip(s))

\* str.replace(" ", "")
RECURSIVE RemoveSpaces(_)
RemoveSpaces(s) ==
    IF s = <<>> THEN <<>>
    ELSE IF Head(s) = " " THEN RemoveSpaces(Tail(s))
    ELSE <<Head(s)>> \o RemoveSpaces(Tail(s))

\* position of the first "-" in s, 0 if there is none ("-" in s, s.split("-", 1))
RECURSIVE FirstDash(_, _)
FirstDash(s, i) ==
    IF i > Len(s) THEN 0
    ELSE IF s[i] = "-" THEN i
    ELSE FirstDash(s, i + 1)

\* k in hay, for texts
IsSubstring(k, hay) ==
    \E i \in 0..(Len(hay) - Len(k)) : SubSeq(hay, i + 1, i + Len(k)) = k

---------------------------------------------------------------------------
(* Floats *)

F(v) == <<"f", v>>
NaN == <<"nan", 0>>

IsNaN(x) == x[1] = "nan"

\* Python's x <= y and x < y on floats: every comparison with NaN is False
FLe(x, y) == ~IsNaN(x) /\ ~IsNaN(y) /\ x[2] <= y[2]
FLt(x, y) == ~IsNaN(x) /\ ~IsNaN(y) /\ x[2] < y[2]
FEq(x, y) == ~IsNaN(x) /\ ~IsNaN(y) /\ x[2] = y[2]

DigitValue(c) == CHOOSE d \in 0..9 : Digit[d + 1] = c

IsDigit(c) == \E d \in 1..10 : Digit[d] = c

RECURSIVE NatValue(_)
NatValue(s) ==
    IF s = <<>> THEN 0
    ELSE 10 * NatValue(SubSeq(s, 1, Len(s) - 1)) + DigitValue(s[Len(s)])

RECURSIVE NatStr(_)
NatStr(n) == IF n < 10 THEN <<Digit[n + 1]>> ELSE NatStr(n \div 10) \o <<Digit[(n % 10) + 1]>>

\* format(x, "g") for NaN and for the integral values the model uses
FmtG(x) ==
    IF IsNaN(x) THEN <<"n", "a", "n">>
    ELSE IF x[2] < 0 THEN <<"-">> \o NatStr(0 - x[2])
    ELSE NatStr(x[2])

\* float(s) for a text without blanks: an optional sign followed by digits,
\* or by "nan"; anything else raises ValueError
ParseFloat(s) ==
    LET signed == s # <<>> /\ Head(s) \in {"-", "+"}
        body == IF signed THEN Tail(s) ELSE s
        neg == signed /\ Head(s) = "-"
    IN  IF body = <<"n", "a", "n">> THEN [ok |-> TRUE, val |-> NaN]
        ELSE IF body # <<>> /\ \A i \in 1..Len(body) : IsDigit(body[i])
        THEN [ok |-> TRUE, val |-> F(IF neg THEN 0 - NatValue(body) ELSE NatValue(body))]
        ELSE [ok |-> FALSE, val |-> F(0)]

---------------------------------------------------------------------------
(* RangeSpec *)

RangeSpec(lo, hi, unit) == [min |-> lo, max |-> hi, unit |-> unit]

RangeNormalized(r) ==
    IF FLe(r.min, r.max) THEN RangeSpec(r.min, r.max, Strip(r.unit))
    ELSE RangeSpec(r.max, r.min, Strip(r.unit))

RangeFmt(r) ==
    LET n == RangeNormalized(r)
    IN  IF FEq(n.min, n.max) THEN FmtG(n.min) \o n.unit
        ELSE FmtG(n.min) \o <<"-">> \o FmtG(n.max) \o n.unit

RangeKey(r) ==
    LET n == RangeNormalized(r)
    IN  Lower(FmtG(n.min) \o <<"-">> \o FmtG(n.max) \o n.unit)

---------------------------------------------------------------------------
(* Part *)

Part(category, name, voltage, current, quantity, notes) ==
    [category |-> category, name |-> name, voltage |-> voltage,
     current |-> current, quantity |-> quantity, notes |-> notes]

PartNormalized(p) ==
    Part(Strip(p.category), Strip(p.name), RangeNormalized(p.voltage),
         RangeNormalized(p.current), p.quantity, Strip(p.notes))

\* dedupe_key keeping the letter case of category and name
dedupe_key_cased(p) ==
    LET n == PartNormalized(p)
    IN  <<n.category, n.name, RangeKey(n.voltage), RangeKey(n.current)>>

dedupe_key(p) ==
    LET n == PartNormalized(p)
    IN  <<Lower(n.category), Lower(n.name), RangeKey(n.voltage), RangeKey(n.current)>>

---------------------------------------------------------------------------
(* Parsing and validation *)

NoRange == RangeSpec(F(0), F(0), <<>>)

\* parse_range: [ok, err, val]; ok = FALSE is the ValueError it raises
parse_range(text, unit) ==
    LET s == RemoveSpaces(Lower(Strip(text)))
        d == FirstDash(s, 1)
        a == IF d > 0 THEN ParseFloat(SubSeq(s, 1, d - 1)) ELSE ParseFloat(s)
        b == IF d > 0 THEN ParseFloat(SubSeq(s, d + 1, Len(s))) ELSE ParseFloat(s)
    IN  IF s = <<>> THEN [ok |-> FALSE, err |-> "range is empty", val |-> NoRange]
        ELSE IF Strip(unit) = <<>> THEN [ok |-> FALSE, err |-> "unit is empty", val |-> NoRange]
        ELSE IF ~a.ok \/ ~b.ok
        THEN [ok |-> FALSE, err |-> "could not convert string to float", val |-> NoRange]
        ELSE [ok |-> TRUE, err |-> "", val |-> RangeSpec(a.val, b.val, Strip(unit))]

\* validate_part checking the quantity before the category and the name
validate_part_qtyfirst(p0) ==
    LET p == PartNormalized(p0)
    IN  IF p.quantity <= 0 THEN [ok |-> FALSE, err |-> "quantity must be > 0", val |-> p]
        ELSE IF p.category = <<>> THEN [ok |-> FALSE, err |-> "category is required", val |-> p]
        ELSE IF p.name = <<>> THEN [ok |-> FALSE, err |-> "name is required", val |-> p]
        ELSE IF FLt(p.voltage.min, F(0)) \/ FLt(p.voltage.max, F(0))
        THEN [ok |-> FALSE, err |-> "voltage cannot be negative", val |-> p]
        ELSE IF FLt(p.current.min, F(0)) \/ FLt(p.current.max, F(0))
        THEN [ok |-> FALSE, err |-> "current cannot be negative", val |-> p]
        ELSE [ok |-> TRUE, err |-> "", val |-> p]

\* validate_part: [ok, err, val]; ok = FALSE is the ValueError it raises
validate_part(p0) ==
    LET p == PartNormalized(p0)
    IN  IF p.category = <<>> THEN [ok |-> FALSE, err |-> "category is required", val |-> p]
        ELSE IF p.name = <<>> THEN [ok |-> FALSE, err |-> "name is required", val |-> p]
        ELSE IF p.quantity <= 0 THEN [ok |-> FALSE, err |-> "quantity must be > 0", val |-> p]
        ELSE IF FLt(p.voltage.min, F(0)) \/ FLt(p.voltage.max, F(0))
        THEN [ok |-> FALSE, err |-> "voltage cannot be negative", val |-> p]
        ELSE IF FLt(p.current.min, F(0)) \/ FLt(p.current.max, F(0))
        THEN [ok |-> FALSE, err |-> "current cannot be negative", val |-> p]
        ELSE [ok |-> TRUE, err |-> "", val |-> p]

---------------------------------------------------------------------------
(* Dicts and JSON values *)

JInt(n) == <<"int", n>>
JStr == <<"str", 0>>                 \* a JSON string that int() rejects
JList(s) == <<"list", s>>
JOther == <<"other", <<>>>>          \* a JSON value that is not a list

NoDict == <<>>

Has(d, k) == k \in DOMAIN d

\* d[k] = v
SetKey(d, k, v) == [q \in (DOMAIN d) \cup {k} |-> IF q = k THEN v ELSE d[q]]

PartsOf(d) == d["parts"][2]

---------------------------------------------------------------------------
(* Store *)

empty_db == [version |-> DB_VERSION, parts |-> JList(<<>>)]

FileMissing == [kind |-> "missing", data |-> NoDict]
FileOf(d) == [kind |-> "record", data |-> d]

\* load_db: [raised, db]; raised = TRUE is the UnicodeDecodeError that
\* path.read_text(encoding="utf-8") raises and load_db does not catch
load_db(f) ==
    IF f.kind = "missing" THEN [raised |-> FALSE, db |-> empty_db]
    ELSE IF f.kind = "notutf8" THEN [raised |-> TRUE, db |-> empty_db]
    ELSE IF f.kind = "notjson" THEN [raised |-> FALSE, db |-> empty_db]
    ELSE IF f.kind # "record" THEN [raised |-> FALSE, db |-> empty_db]
    ELSE LET d1 == IF ~Has(f.data, "parts") \/ f.data["parts"][1] # "list"
                   THEN SetKey(f.data, "parts", JList(<<>>))
                   ELSE f.data
             d2 == IF ~Has(d1, "version") THEN SetKey(d1, "version", DB_VERSION) ELSE d1
         IN  [raised |-> FALSE, db |-> d2]

\* a save that is cut short before the parts are written
save_db_cut(d) == FileOf(SetKey(d, "parts", JList(<<>>)))

\* save_db: the file holds the serialized dict
save_db(d) == FileOf(d)

\* int(p.get("id", dflt)): [ok, val]; ok = FALSE is the ValueError of int()
IdOf(d, dflt) ==
    IF ~Has(d, "id") THEN [ok |-> TRUE, val |-> dflt]
    ELSE IF d["id"][1] = "int" THEN [ok |-> TRUE, val |-> d["id"][2]]
    ELSE [ok |-> FALSE, val |-> 0]

Max(a, b) == IF a >= b THEN a ELSE b

RECURSIVE MaxIdFrom(_, _)
MaxIdFrom(parts, m) ==
    IF parts = <<>> THEN m
    ELSE LET i == IdOf(Head(parts), 0)
         IN  MaxIdFrom(Tail(parts), IF i.ok THEN Max(m, i.val) ELSE m)

\* next_id taking one more than the id of the first record
next_id_first(parts) == IF parts = <<>> THEN 1 ELSE IdOf(Head(parts), 0).val + 1

\* next_id counting the records instead of taking the greatest id
next_id_count(parts) == Len(parts) + 1

next_id(parts) == MaxIdFrom(parts, 0) + 1

RequiredKeys == {"category", "name", "voltage", "current", "quantity"}

\* part_from_dict raises KeyError on a dict that lacks a required key
Decodable(d) == RequiredKeys \subseteq DOMAIN d

part_from_dict(d) ==
    Part(d["category"], d["name"], d["voltage"], d["current"], d["quantity"],
         IF Has(d, "notes") THEN d["notes"] ELSE <<>>)

part_to_dict(p) == PartNormalized(p)

---------------------------------------------------------------------------
(* Prompts *)

None == <<"<None>">>            \* the default of prompt() when none is given

\* prompt: line is what input() returns
prompt(line, default) ==
    IF default = None THEN Strip(line)
    ELSE IF Strip(line) # <<>> THEN Strip(line)
    ELSE default

\* int(s) for a stripped text: an optional sign followed by digits, else ValueError
ParseInt(s0) ==
    LET s == Strip(s0)
        signed == s # <<>> /\ Head(s) \in {"-", "+"}
        body == IF signed THEN Tail(s) ELSE s
    IN  IF body # <<>> /\ \A i \in 1..Len(body) : IsDigit(body[i])
        THEN [ok |-> TRUE,
              val |-> IF signed /\ Head(s) = "-" THEN 0 - NatValue(body) ELSE NatValue(body)]
        ELSE [ok |-> FALSE, val |-> 0]

\* str(n) for an int
IntStr(n) == IF n < 0 THEN <<"-">> \o NatStr(0 - n) ELSE NatStr(n)

\* one round of prompt_int's loop: ok = FALSE prints a hint and asks again
prompt_int(line, default) ==
    LET n == ParseInt(prompt(line, IntStr(default)))
    IN  [ok |-> n.ok /\ n.val > 0, val |-> n.val]

\* one round of prompt_range's loop: ok = FALSE prints "Invalid ..." and asks again
prompt_range(rline, uline, def_range, def_unit) ==
    parse_range(prompt(rline, def_range), prompt(uline, def_unit))

\* matches_keywords that is content with one keyword found
matches_keywords_any(p, keywords) ==
    LET hay == Lower(p.category \o <<" ">> \o p.name \o <<" ">> \o p.notes \o <<" ">>
                     \o RangeFmt(p.voltage) \o <<" ">> \o RangeFmt(p.current))
    IN  keywords = <<>> \/ \E i \in 1..Len(keywords) : IsSubstring(Lower(keywords[i]), hay)

matches_keywords(p, keywords) ==
    LET hay == Lower(p.category \o <<" ">> \o p.name \o <<" ">> \o p.notes \o <<" ">>
                     \o RangeFmt(p.voltage) \o <<" ">> \o RangeFmt(p.current))
    IN  \A i \in 1..Len(keywords) : IsSubstring(Lower(keywords[i]), hay)

---------------------------------------------------------------------------
(* What the user types *)

\* the lines typed at the follow-up prompts of add and edit, one record per
\* filled form: category, name, voltage range and unit, current range and
\* unit, quantity, notes; <<>> is the empty line (Enter)
Form(cl, nl, vl, il, ql) ==
    [cl |-> cl, nl |-> nl, vl |-> vl, vu |-> <<>>, il |-> il, iu |-> <<>>, ql |-> ql, tl |-> <<>>]

Forms ==
    {Form(<<"r">>, <<"k">>, vl, <<>>, ql) :
        vl \in {<<>>, <<"n", "a", "n">>}, ql \in {<<>>, <<"2">>}}
    \cup
    {Form(<<" ", "R">>, <<"k", " ">>, <<"2", "4", " ", "-", "1">>, <<>>, <<>>),
     Form(<<>>, <<"k">>, <<>>, <<>>, <<>>),
     Form(<<"r">>, <<" ">>, <<>>, <<>>, <<>>),
     Form(<<"r">>, <<"k">>, <<"0", "-", "-", "1">>, <<>>, <<>>),
     Form(<<"r">>, <<"k">>, <<>>, <<"0", "-", "-", "1">>, <<>>),
     Form(<<>>, <<>>, <<>>, <<>>, <<>>),
     Form(<<"r">>, <<"k">>, <<"-", "5">>, <<>>, <<>>),
     Form(<<"r">>, <<"k">>, <<>>, <<>>, <<"0">>),
     Form(<<"r">>, <<"k">>, <<>>, <<>>, <<"x">>),
     [Form(<<"r">>, <<"k">>, <<>>, <<>>, <<>>) EXCEPT !.tl = <<" ", "n">>]}

IdTokens == {<<"1">>, <<"2">>, <<"3">>, <<"x">>}
DecTokens == {<<"1">>, <<"2">>, <<"0">>, <<"x">>}

\* the tokens after the command word
ShowArgs == {<<>>} \cup {<<t>> : t \in IdTokens}
EditArgs == {<<>>} \cup {<<t>> : t \in IdTokens}
RemoveArgs ==
    {<<>>} \cup {<<t>> : t \in IdTokens} \cup {<<<<"1">>, <<"-", "n">>>>}
    \cup {<<t, <<"-", "n">>, d>> : t \in IdTokens \ {<<"x">>}, d \in DecTokens}
    \cup {<<<<"1">>, <<"-", "x">>, <<"1">>>>, <<<<"x">>, <<"-", "n">>, <<"1">>>>}
ListArgs == {<<>>, <<<<"R">>>>, <<<<"s">>>>}
SearchArgs ==
    {<<>>, <<<<"K">>>>, <<<<"2", "4", "v">>, <<"r">>>>, <<<<"-", "-", "c", "a", "t">>, <<"R">>>>,
     <<<<"-", "-", "c", "a", "t">>>>}

---------------------------------------------------------------------------
(* What the program prints *)

NoPart == Part(<<>>, <<>>, NoRange, NoRange, 0, <<>>)

Out(cmd, msg) ==
    [cmd |-> cmd, msg |-> msg, err |-> "", id |-> 0, n |-> 0, part |-> NoPart, rows |-> <<>>]

---------------------------------------------------------------------------
(* Actions of the program, as functions of the loaded dict and the input *)

RemoveAt(parts, i) == SubSeq(parts, 1, i - 1) \o SubSeq(parts, i + 1, Len(parts))

WithParts(d, parts) == SetKey(d, "parts", JList(parts))

\* a scan that settles on the last record when no record has the id
ScanById_last(parts, id_, i) ==
    LET hits == {j \in 1..Len(parts) : IdOf(parts[j], -1).ok /\ IdOf(parts[j], -1).val = id_}
    IN  IF hits # {} THEN [raised |-> FALSE, idx |-> CHOOSE j \in hits : \A h \in hits : j <= h]
        ELSE [raised |-> FALSE, idx |-> Len(parts)]

\* the scan `for d in parts: if int(d.get("id", -1)) == id_`: [raised, idx];
\* raised = TRUE is the ValueError of int() on the first non-numeric id met
\* before a match, idx = 0 is "no record has this id"
RECURSIVE ScanById(_, _, _)
ScanById(parts, id_, i) ==
    IF i > Len(parts) THEN [raised |-> FALSE, idx |-> 0]
    ELSE LET v == IdOf(parts[i], -1)
         IN  IF ~v.ok THEN [raised |-> TRUE, idx |-> 0]
             ELSE IF v.val = id_ THEN [raised |-> FALSE, idx |-> i]
             ELSE ScanById(parts, id_, i + 1)

\* the merge scan of action_add: index of the first decodable record with key k, 0 if none
RECURSIVE FirstMatch(_, _, _)
FirstMatch(parts, k, i) ==
    IF i > Len(parts) THEN 0
    ELSE IF Decodable(parts[i]) /\ dedupe_key(part_from_dict(parts[i])) = k THEN i
    ELSE FirstMatch(parts, k, i + 1)

\* int(d.get("quantity", 0))
QuantityOf(d) == IF Has(d, "quantity") THEN d["quantity"] ELSE 0

DefVoltageRange == <<"1", "-", "2", "4">>
DefVoltageUnit == <<"V">>
DefCurrentRange == <<"0", "-", "1">>
DefCurrentUnit == <<"A">>

\* action_add whose merge stores the candidate's quantity instead of the sum
action_add_setqty(d, p0) ==
    LET v == validate_part(p0)
        p == v.val
        parts == PartsOf(d)
        k == dedupe_key(p)
        m == FirstMatch(parts, k, 1)
        q == p.quantity
        merged == [parts EXCEPT ![m] = SetKey(parts[m], "quantity", q)]
        nid == next_id(parts)
        new == SetKey(part_to_dict(p), "id", JInt(nid))
    IN  IF ~v.ok
        THEN [raised |-> TRUE, db |-> d, saves |-> 0,
              out |-> [Out("add", "Error") EXCEPT !.err = v.err]]
        ELSE IF m > 0
        THEN [raised |-> FALSE, db |-> WithParts(d, merged), saves |-> 1,
              out |-> [Out("add", "Merged") EXCEPT !.n = q, !.part = p]]
        ELSE [raised |-> FALSE, db |-> WithParts(d, Append(parts, new)), saves |-> 1,
              out |-> [Out("add", "Added") EXCEPT !.id = nid, !.part = p]]

\* action_add after its prompts: p is Part(category, name, voltage, current, qty, notes).
\* [raised, err, db, saves, out]
action_add(d, p0) ==
    LET v == validate_part(p0)
        p == v.val
        parts == PartsOf(d)
        k == dedupe_key(p)
        m == FirstMatch(parts, k, 1)
        q == QuantityOf(parts[m]) + p.quantity
        merged == [parts EXCEPT ![m] = SetKey(parts[m], "quantity", q)]
        nid == next_id(parts)
        new == SetKey(part_to_dict(p), "id", JInt(nid))
    IN  IF ~v.ok
        THEN [raised |-> TRUE, db |-> d, saves |-> 0,
              out |-> [Out("add", "Error") EXCEPT !.err = v.err]]
        ELSE IF m > 0
        THEN [raised |-> FALSE, db |-> WithParts(d, merged), saves |-> 1,
              out |-> [Out("add", "Merged") EXCEPT !.n = q, !.part = p]]
        ELSE [raised |-> FALSE, db |-> WithParts(d, Append(parts, new)), saves |-> 1,
              out |-> [Out("add", "Added") EXCEPT !.id = nid, !.part = p]]

\* ListRows that lists the records part_from_dict cannot decode as well
RECURSIVE ListRows_noskip(_, _, _)
ListRows_noskip(parts, category, i) ==
    IF i > Len(parts) THEN <<>>
    ELSE IF category # None /\ category # <<>>
            /\ Lower(parts[i]["category"]) # Lower(category)
    THEN ListRows_noskip(parts, category, i + 1)
    ELSE <<i>> \o ListRows_noskip(parts, category, i + 1)

\* rows of action_list: the positions of the records listed, in storage order
RECURSIVE ListRows(_, _, _)
ListRows(parts, category, i) ==
    IF i > Len(parts) THEN <<>>
    ELSE IF ~Decodable(parts[i]) THEN ListRows(parts, category, i + 1)
    ELSE IF category # None /\ category # <<>>
            /\ Lower(part_from_dict(parts[i]).category) # Lower(category)
    THEN ListRows(parts, category, i + 1)
    ELSE <<i>> \o ListRows(parts, category, i + 1)

action_list(d, category) ==
    [Out("list", "Table") EXCEPT !.rows = ListRows(PartsOf(d), category, 1)]

RECURSIVE SearchRows(_, _, _, _)
SearchRows(parts, keywords, category, i) ==
    IF i > Len(parts) THEN <<>>
    ELSE IF ~Decodable(parts[i]) THEN SearchRows(parts, keywords, category, i + 1)
    ELSE IF category # None /\ category # <<>>
            /\ Lower(part_from_dict(parts[i]).category) # Lower(category)
    THEN SearchRows(parts, keywords, category, i + 1)
    ELSE IF matches_keywords(part_from_dict(parts[i]), keywords)
    THEN <<i>> \o SearchRows(parts, keywords, category, i + 1)
    ELSE SearchRows(parts, keywords, category, i + 1)

action_search(d, keywords, category) ==
    [Out("search", "Table") EXCEPT !.rows = SearchRows(PartsOf(d), keywords, category, 1)]

\* the --cat parsing of repl's search branch: [keywords, category]
RECURSIVE SearchParse(_, _, _, _)
SearchParse(args, i, keywords, category) ==
    IF i > Len(args) THEN [keywords |-> keywords, category |-> category]
    ELSE IF args[i] = <<"-", "-", "c", "a", "t">> /\ i + 1 <= Len(args)
    THEN SearchParse(args, i + 2, keywords, args[i + 1])
    ELSE SearchParse(args, i + 1, Append(keywords, args[i]), category)

\* action_show: [raised, out]
action_show(d, id_) ==
    LET parts == PartsOf(d)
        f == ScanById(parts, id_, 1)
    IN  IF f.raised
        THEN [raised |-> TRUE,
              out |-> [Out("show", "Error") EXCEPT !.err = "invalid literal for int()", !.id = id_]]
        ELSE IF f.idx = 0
        THEN [raised |-> FALSE, out |-> [Out("show", "Not found.") EXCEPT !.id = id_]]
        ELSE IF ~Decodable(parts[f.idx])
        THEN [raised |-> TRUE, out |-> [Out("show", "Error") EXCEPT !.err = "KeyError", !.id = id_]]
        ELSE [raised |-> FALSE,
              out |-> [Out("show", "Shown") EXCEPT !.rows = <<f.idx>>, !.id = id_]]

\* Optional[int]
NoInt == [none |-> TRUE, val |-> 0]
SomeInt(n) == [none |-> FALSE, val |-> n]

\* action_remove keeping a record whose quantity reaches 0
action_remove_keepzero(d, id_, decrement) ==
    LET parts == PartsOf(d)
        f == ScanById(parts, id_, 1)
        q2 == QuantityOf(parts[f.idx]) - decrement.val
        o(msg) == [Out("remove", msg) EXCEPT !.id = id_, !.n = decrement.val]
        quiet(msg) == Out("remove", msg)
        named(msg) == [Out("remove", msg) EXCEPT !.id = id_]
    IN  IF f.raised
        THEN [raised |-> TRUE, db |-> d, saves |-> 0,
              out |-> [named("Error") EXCEPT !.err = "invalid literal for int()"]]
        ELSE IF f.idx = 0
        THEN [raised |-> FALSE, db |-> d, saves |-> 0, out |-> named("Not found.")]
        ELSE IF decrement.none
        THEN [raised |-> FALSE, db |-> WithParts(d, RemoveAt(parts, f.idx)), saves |-> 1,
              out |-> o("Deleted.")]
        ELSE IF decrement.val <= 0
        THEN [raised |-> FALSE, db |-> d, saves |-> 0, out |-> quiet("Decrement must be > 0.")]
        ELSE IF q2 >= 0
        THEN [raised |-> FALSE,
              db |-> WithParts(d, [parts EXCEPT ![f.idx] = SetKey(parts[f.idx], "quantity", q2)]),
              saves |-> 1, out |-> o("Decremented.")]
        ELSE [raised |-> FALSE, db |-> WithParts(d, RemoveAt(parts, f.idx)), saves |-> 1,
              out |-> o("Quantity hit 0; removed.")]

\* action_remove: [raised, db, saves, out]
action_remove(d, id_, decrement) ==
    LET parts == PartsOf(d)
        f == ScanById(parts, id_, 1)
        q2 == QuantityOf(parts[f.idx]) - decrement.val
        o(msg) == [Out("remove", msg) EXCEPT !.id = id_, !.n = decrement.val]
        quiet(msg) == Out("remove", msg)
        named(msg) == [Out("remove", msg) EXCEPT !.id = id_]
    IN  IF f.raised
        THEN [raised |-> TRUE, db |-> d, saves |-> 0,
              out |-> [named("Error") EXCEPT !.err = "invalid literal for int()"]]
        ELSE IF f.idx = 0
        THEN [raised |-> FALSE, db |-> d, saves |-> 0, out |-> named("Not found.")]
        ELSE IF decrement.none
        THEN [raised |-> FALSE, db |-> WithParts(d, RemoveAt(parts, f.idx)), saves |-> 1,
              out |-> o("Deleted.")]
        ELSE IF decrement.val <= 0
        THEN [raised |-> FALSE, db |-> d, saves |-> 0, out |-> quiet("Decrement must be > 0.")]
        ELSE IF q2 > 0
        THEN [raised |-> FALSE,
              db |-> WithParts(d, [parts EXCEPT ![f.idx] = SetKey(parts[f.idx], "quantity", q2)]),
              saves |-> 1, out |-> o("Decremented.")]
        ELSE [raised |-> FALSE, db |-> WithParts(d, RemoveAt(parts, f.idx)), saves |-> 1,
              out |-> o("Quantity hit 0; removed.")]

\* action_edit up to its first prompt: [raised, idx, out]
action_edit_find(d, id_) ==
    LET parts == PartsOf(d)
        f == ScanById(parts, id_, 1)
    IN  IF f.raised
        THEN [raised |-> TRUE, idx |-> 0,
              out |-> [Out("edit", "Error") EXCEPT !.err = "invalid literal for int()", !.id = id_]]
        ELSE IF f.idx = 0
        THEN [raised |-> FALSE, idx |-> 0, out |-> [Out("edit", "Not found.") EXCEPT !.id = id_]]
        ELSE IF ~Decodable(parts[f.idx])
        THEN [raised |-> TRUE, idx |-> 0,
              out |-> [Out("edit", "Error") EXCEPT !.err = "KeyError", !.id = id_]]
        ELSE [raised |-> FALSE, idx |-> f.idx, out |-> [Out("edit", "Editing") EXCEPT !.id = id_]]

\* an update that replaces the record by the new fields
Update_replace(d, u) == u

\* d.update(part_to_dict(updated))
Update(d, u) == [k \in (DOMAIN d) \cup (DOMAIN u) |-> IF k \in DOMAIN u THEN u[k] ELSE d[k]]

\* the default range text of action_edit (v_def, i_def)
EditRangeDefault(r) ==
    IF ~FEq(r.min, r.max) THEN FmtG(r.min) \o <<"-">> \o FmtG(r.max) ELSE FmtG(r.min)

\* action_edit that updates and saves the record before it validates
action_edit_savefirst(d, i, p0) ==
    LET v == validate_part(p0)
        parts == PartsOf(d)
        id_ == IdOf(parts[i], -1).val
        updated == WithParts(d, [parts EXCEPT ![i] = Update(parts[i], part_to_dict(v.val))])
    IN  IF ~v.ok
        THEN [raised |-> TRUE, db |-> updated, saves |-> 1,
              out |-> [Out("edit", "Error") EXCEPT !.err = v.err]]
        ELSE [raised |-> FALSE, db |-> updated, saves |-> 1,
              out |-> [Out("edit", "Updated.") EXCEPT !.id = id_, !.part = v.val]]

\* action_edit after its prompts, on the record at position i: [raised, db, saves, out]
action_edit(d, i, p0) ==
    LET v == validate_part(p0)
        parts == PartsOf(d)
        id_ == IdOf(parts[i], -1).val
    IN  IF ~v.ok
        THEN [raised |-> TRUE, db |-> d, saves |-> 0,
              out |-> [Out("edit", "Error") EXCEPT !.err = v.err]]
        ELSE [raised |-> FALSE,
              db |-> WithParts(d, [parts EXCEPT ![i] = Update(parts[i], part_to_dict(v.val))]),
              saves |-> 1,
              out |-> [Out("edit", "Updated.") EXCEPT !.id = id_, !.part = v.val]]

---------------------------------------------------------------------------
(* The read-eval loop *)

NoProbe == [f |-> "", arg |-> <<>>, res |-> <<>>]

Init ==
    /\ file = FileMissing
    /\ db = load_db(FileMissing).db
    /\ pc = "prompt"
    /\ target = 0
    /\ last = Out("start", "")
    /\ writes = 0
    /\ assigned = {}
    /\ probe = NoProbe

\* a command that leaves everything but the output as it is
Quiet(o) ==
    /\ last' = o
    /\ writes' = 0
    /\ pc' = "prompt"
    /\ UNCHANGED <<file, target, assigned, probe>>

\* db = load_db(db_path) at the head of the dispatch raises: the program ends with a traceback
LoadCrash(cmd) ==
    /\ pc' = "crashed"
    /\ last' = Out(cmd, "Traceback: UnicodeDecodeError")
    /\ writes' = 0
    /\ UNCHANGED <<file, db, target, assigned, probe>>

\* input("> ") raises EOFError or KeyboardInterrupt
ReadInterrupted ==
    /\ pc = "prompt"
    /\ pc' = "exited"
    /\ last' = Out("", "Exiting.")
    /\ UNCHANGED <<file, db, target, writes, assigned, probe>>

\* an empty line
ReadBlank ==
    /\ pc = "prompt"
    /\ last' = Out("", "")
    /\ UNCHANGED <<file, db, pc, target, writes, assigned, probe>>

\* tokenize raises ValueError (an unbalanced quote)
ReadParseError ==
    /\ pc = "prompt"
    /\ last' = Out("", "Parse error")
    /\ UNCHANGED <<file, db, pc, target, writes, assigned, probe>>

CmdExit ==
    /\ pc = "prompt"
    /\ pc' = "exited"
    /\ last' = Out("exit", "")
    /\ UNCHANGED <<file, db, target, writes, assigned, probe>>

CmdHelp ==
    /\ pc = "prompt"
    /\ last' = Out("help", "Commands:")
    /\ writes' = 0
    /\ UNCHANGED <<file, db, pc, target, assigned, probe>>

CmdUnknown ==
    /\ pc = "prompt"
    /\ \E l \in {load_db(file)} :
           IF l.raised THEN LoadCrash("?")
           ELSE db' = l.db /\ Quiet(Out("?", "Unknown command."))

\* the command "list" working on the dict an earlier command left in db
CmdList_stale ==
    /\ pc = "prompt"
    /\ \E args \in ListArgs :
        /\ db' = db
        /\ Quiet(action_list(db, IF Len(args) >= 1 THEN args[1] ELSE None))

CmdList ==
    /\ pc = "prompt"
    /\ \E args \in ListArgs, l \in {load_db(file)} :
        LET category == IF Len(args) >= 1 THEN args[1] ELSE None
        IN  IF l.raised THEN LoadCrash("list")
            ELSE db' = l.db /\ Quiet(action_list(l.db, category))

CmdSearch ==
    /\ pc = "prompt"
    /\ \E args \in SearchArgs, l \in {load_db(file)} :
        LET a == SearchParse(args, 1, <<>>, None)
        IN  IF l.raised THEN LoadCrash("search")
            ELSE IF Len(args) < 1 THEN db' = l.db /\ Quiet(Out("search", "Usage"))
            ELSE db' = l.db /\ Quiet(action_search(l.db, a.keywords, a.category))

CmdShow ==
    /\ pc = "prompt"
    /\ \E args \in ShowArgs, l \in {load_db(file)} :
        LET id_ == ParseInt(args[1])
        IN  IF l.raised THEN LoadCrash("show")
            ELSE IF Len(args) # 1 THEN db' = l.db /\ Quiet(Out("show", "Usage"))
            ELSE IF ~id_.ok
            THEN db' = l.db /\ Quiet([Out("show", "Error") EXCEPT !.err = "invalid literal for int()"])
            ELSE db' = l.db /\ Quiet(action_show(l.db, id_.val).out)

CmdRemove ==
    /\ pc = "prompt"
    /\ \E args \in RemoveArgs, l \in {load_db(file)} :
        LET id_ == ParseInt(args[1])
            dec == ParseInt(args[3])
            bad == [Out("remove", "Error") EXCEPT !.err = "invalid literal for int()"]
        IN  IF l.raised THEN LoadCrash("remove")
            ELSE IF Len(args) \notin {1, 3} THEN db' = l.db /\ Quiet(Out("remove", "Usage"))
            ELSE IF ~id_.ok THEN db' = l.db /\ Quiet(bad)
            ELSE IF Len(args) = 3 /\ args[2] # <<"-", "n">>
            THEN db' = l.db /\ Quiet(Out("remove", "Usage"))
            ELSE IF Len(args) = 3 /\ ~dec.ok THEN db' = l.db /\ Quiet(bad)
            ELSE \E r \in {action_remove(l.db, id_.val,
                                          IF Len(args) = 3 THEN SomeInt(dec.val) ELSE NoInt)} :
                 /\ db' = r.db
                 /\ file' = IF r.saves > 0 THEN save_db(r.db) ELSE file
                 /\ writes' = r.saves
                 /\ last' = r.out
                 /\ pc' = "prompt"
                 /\ UNCHANGED <<target, assigned, probe>>

\* the command "add" up to the first prompt of action_add
CmdAdd ==
    /\ pc = "prompt"
    /\ \E l \in {load_db(file)} :
           IF l.raised THEN LoadCrash("add")
           ELSE /\ db' = l.db
                /\ pc' = "add"
                /\ last' = Out("add", "Category")
                /\ writes' = 0
                /\ UNCHANGED <<file, target, assigned, probe>>

\* the prompts of action_add answered, and the rest of action_add; a form
\* with a line that prompt_range or prompt_int rejects is asked again
AddSubmit ==
    /\ pc = "add"
    /\ \E f \in Forms :
       \E voltage \in {prompt_range(f.vl, f.vu, DefVoltageRange, DefVoltageUnit)},
          current \in {prompt_range(f.il, f.iu, DefCurrentRange, DefCurrentUnit)},
          qty \in {prompt_int(f.ql, 1)} :
        /\ voltage.ok /\ current.ok /\ qty.ok
        /\ \E r \in {action_add(db, Part(prompt(f.cl, None), prompt(f.nl, None), voltage.val,
                                         current.val, qty.val, prompt(f.tl, <<>>)))} :
            /\ r.out.msg = "Merged" => r.out.n <= MaxQty
            /\ r.out.msg = "Added" => r.out.id <= MaxId
            /\ db' = r.db
            /\ file' = IF r.saves > 0 THEN save_db(r.db) ELSE file
            /\ writes' = writes + r.saves
            /\ assigned' = IF r.out.msg = "Added" THEN assigned \cup {r.out.id} ELSE assigned
            /\ last' = r.out
            /\ pc' = "prompt"
            /\ UNCHANGED <<target, probe>>

\* the command "edit" up to the first prompt of action_edit
CmdEdit ==
    /\ pc = "prompt"
    /\ \E args \in EditArgs, l \in {load_db(file)} :
        LET id_ == ParseInt(args[1])
        IN  IF l.raised THEN LoadCrash("edit")
            ELSE IF Len(args) # 1 THEN db' = l.db /\ Quiet(Out("edit", "Usage"))
            ELSE IF ~id_.ok
            THEN db' = l.db /\ Quiet([Out("edit", "Error") EXCEPT !.err = "invalid literal for int()"])
            ELSE \E f \in {action_edit_find(l.db, id_.val)} :
                 IF f.idx = 0 THEN db' = l.db /\ Quiet(f.out)
                 ELSE
                 /\ db' = l.db
                 /\ pc' = "edit"
                 /\ target' = f.idx
                 /\ last' = f.out
                 /\ writes' = 0
                 /\ UNCHANGED <<file, assigned, probe>>

\* the prompts of action_edit answered, and the rest of action_edit
EditSubmit ==
    /\ pc = "edit"
    /\ \E f \in Forms, old \in {part_from_dict(PartsOf(db)[target])} :
       \E voltage \in {prompt_range(f.vl, f.vu, EditRangeDefault(old.voltage), old.voltage.unit)},
          current \in {prompt_range(f.il, f.iu, EditRangeDefault(old.current), old.current.unit)},
          qty \in {prompt_int(f.ql, old.quantity)} :
        /\ voltage.ok /\ current.ok /\ qty.ok
        /\ \E r \in {action_edit(db, target,
                                 Part(prompt(f.cl, old.category), prompt(f.nl, old.name),
                                      voltage.val, current.val, qty.val,
                                      prompt(f.tl, old.notes)))} :
            /\ db' = r.db
            /\ file' = IF r.saves > 0 THEN save_db(r.db) ELSE file
            /\ writes' = writes + r.saves
            /\ last' = r.out
            /\ pc' = "prompt"
            /\ target' = 0
            /\ UNCHANGED <<assigned, probe>>

\* input() inside action_add or action_edit raises EOFError: repl's
\* `except Exception` prints it and the loop goes on
FollowupEOF ==
    /\ pc \in {"add", "edit"}
    /\ pc' = "prompt"
    /\ target' = 0
    /\ last' = [Out(pc, "Error") EXCEPT !.err = "EOF"]
    /\ UNCHANGED <<file, db, writes, assigned, probe>>

\* input() inside action_add or action_edit raises KeyboardInterrupt, which
\* `except Exception` does not catch: the program ends with a traceback
FollowupInterrupt ==
    /\ pc \in {"add", "edit"}
    /\ pc' = "crashed"
    /\ target' = 0
    /\ last' = Out(pc, "Traceback: KeyboardInterrupt")
    /\ UNCHANGED <<file, db, writes, assigned, probe>>

Next ==
    \/ ReadInterrupted
    \/ ReadBlank
    \/ ReadParseError
    \/ CmdExit
    \/ CmdHelp
    \/ CmdUnknown
    \/ CmdList
    \/ CmdSearch
    \/ CmdShow
    \/ CmdRemove
    \/ CmdAdd
    \/ AddSubmit
    \/ CmdEdit
    \/ EditSubmit
    \/ FollowupEOF
    \/ FollowupInterrupt

Spec == Init /\ [][Next]_vars

---------------------------------------------------------------------------
(* The file edited from outside between two commands *)

GoodRec(n) ==
    [id |-> JInt(n), category |-> <<"r">>, name |-> <<"k">>,
     voltage |-> RangeSpec(F(1), F(24), <<"V">>), current |-> RangeSpec(F(0), F(1), <<"A">>),
     quantity |-> 1, notes |-> <<>>]

\* a record whose id is a string that is no number
BadIdRec == SetKey(GoodRec(0), "id", JStr)

\* a record without an id
NoIdRec == [k \in (DOMAIN GoodRec(0)) \ {"id"} |-> GoodRec(0)[k]]

\* a record without a name
NoNameRec == [k \in (DOMAIN GoodRec(1)) \ {"name"} |-> GoodRec(1)[k]]

\* a record without a name that sits behind a well-formed record
NoNameRec2 == [k \in (DOMAIN GoodRec(2)) \ {"name"} |-> GoodRec(2)[k]]

ExtFiles ==
    {FileMissing,
     [kind |-> "notutf8", data |-> NoDict],
     [kind |-> "notjson", data |-> NoDict],
     [kind |-> "notrecord", data |-> NoDict],
     FileOf([parts |-> JOther]),
     FileOf([version |-> DB_VERSION + 1]),
     FileOf([version |-> DB_VERSION, parts |-> JList(<<BadIdRec>>)]),
     FileOf([version |-> DB_VERSION, parts |-> JList(<<NoIdRec>>)]),
     FileOf([version |-> DB_VERSION, parts |-> JList(<<NoNameRec>>)]),
     FileOf([version |-> DB_VERSION, parts |-> JList(<<GoodRec(1), NoNameRec2>>)])}

\* what the file is replaced by while the program runs
EditedFiles ==
    {FileMissing,
     [kind |-> "notutf8", data |-> NoDict],
     FileOf([version |-> DB_VERSION, parts |-> JList(<<BadIdRec>>)]),
     FileOf([version |-> DB_VERSION, parts |-> JList(<<GoodRec(1), NoNameRec2>>)])}

\* "Reload each loop in case user edits file externally": the file is
\* replaced while the program waits at its command prompt
ExternalWrite ==
    /\ pc = "prompt"
    /\ \E f \in EditedFiles : file' = f
    /\ last' = Out("", "")
    /\ UNCHANGED <<db, pc, target, writes, assigned, probe>>

\* the program started on a file written by someone else
InitExt ==
    /\ file \in ExtFiles
    /\ db = load_db(file).db
    /\ pc = IF load_db(file).raised THEN "crashed" ELSE "prompt"
    /\ target = 0
    /\ last = IF load_db(file).raised THEN Out("start", "Traceback: UnicodeDecodeError")
              ELSE Out("start", "")
    /\ writes = 0
    /\ assigned = {}
    /\ probe = NoProbe

SpecExt == InitExt /\ [][Next]_vars

\* the program started on an empty store, the file edited while it runs
SpecEdit == Init /\ [][Next \/ ExternalWrite]_vars

---------------------------------------------------------------------------
(* Functions applied on their own *)

ProbeTexts == {<<>>, <<" ">>, <<"r">>, <<" ", "R", " ">>, <<"s">>}
ProbeQuantities == {0 - 1, 0, 1, 2}
ProbeUnits == {<<"V">>, <<" ", "V">>, <<"m", "V">>}
ProbeBounds == {F(0 - 1), F(1), F(24), NaN}
ProbeRanges == {RangeSpec(lo, hi, u) : lo \in ProbeBounds, hi \in ProbeBounds, u \in ProbeUnits}

\* the parts validate_part is applied to
ValidateArgs ==
    {Part(c, n, v, i, q, <<>>) :
        c \in {<<>>, <<" ">>, <<" ", "R", " ">>}, n \in {<<>>, <<"k">>},
        v \in {RangeSpec(F(1), F(24), <<"V">>), RangeSpec(F(24), F(0 - 1), <<"V">>),
               RangeSpec(F(0 - 1), F(1), <<"V">>), RangeSpec(NaN, F(1), <<"V">>)},
        i \in {RangeSpec(F(0), F(1), <<"A">>), RangeSpec(F(0 - 2), F(0 - 1), <<"A">>),
               RangeSpec(F(1), F(0 - 1), <<" ", "A">>)},
        q \in ProbeQuantities}

\* the pairs of parts dedupe_key is applied to
DedupeLeft ==
    {Part(c, <<"k">>, v, RangeSpec(F(0), F(1), <<"A">>), 1, <<>>) :
        c \in {<<"r">>, <<"s">>},
        v \in {RangeSpec(F(1), F(24), <<"V">>), RangeSpec(F(1), F(1), <<"V">>),
               RangeSpec(NaN, F(1), <<"V">>)}}
DedupeRight ==
    {Part(c, n, v, RangeSpec(F(1), F(0), iu), q, t) :
        c \in {<<"r">>, <<" ", "R", " ">>}, n \in {<<"k">>, <<"K", " ">>, <<"k", " ", "k">>},
        v \in {RangeSpec(F(1), F(24), <<"V">>), RangeSpec(F(24), F(1), <<"V", " ">>),
               RangeSpec(F(24), F(1), <<"v">>), RangeSpec(F(1), NaN, <<"V">>)},
        iu \in {<<"A">>, <<"m", "A">>}, q \in {1, 2}, t \in {<<>>, <<"n">>}}

\* the stores and the argument lists action_search is applied to
SearchRecords ==
    {GoodRec(1),
     [GoodRec(2) EXCEPT !["category"] = <<"S">>, !["voltage"] = RangeSpec(F(24), F(24), <<"V">>),
                        !["notes"] = <<"n">>],
     NoNameRec}
SearchStores ==
    {<<>>} \cup {<<a>> : a \in SearchRecords} \cup {<<a, b>> : a, b \in SearchRecords}
    \cup {<<a, b, c>> : a, b, c \in SearchRecords}
SearchLines ==
    SearchArgs \cup {<<<<"k">>, <<"-", "-", "c", "a", "t">>, <<"s">>>>, <<<<"r", " ", "K">>>>,
                     <<<<"N">>>>, <<<<"2", "4", "v">>, <<"-", "-", "c", "a", "t">>, <<"R">>>>}

\* the range texts parse_range is applied to, each with the bounds it writes
\* down, and the field of the part the range is for
RangeTexts ==
    {[text |-> <<"1", "-", "2", "4">>, lo |-> 1, hi |-> 24],
     [text |-> <<"2", "4", " ", "-", "1">>, lo |-> 24, hi |-> 1],
     [text |-> <<"5">>, lo |-> 5, hi |-> 5],
     [text |-> <<"-", "5">>, lo |-> 0 - 5, hi |-> 0 - 5],
     [text |-> <<"0", "-", "-", "1">>, lo |-> 0, hi |-> 0 - 1],
     [text |-> <<"-", "5", "-", "3">>, lo |-> 0 - 5, hi |-> 3]}
RangeFields == {"voltage", "current"}

InitPure ==
    /\ file = FileMissing
    /\ db = empty_db
    /\ pc = "probe"
    /\ target = 0
    /\ last = Out("start", "")
    /\ writes = 0
    /\ assigned = {}
    /\ \/ \E p \in ValidateArgs : probe = [f |-> "validate_part", arg |-> p, res |-> <<>>]
       \/ \E p1 \in DedupeLeft, p2 \in DedupeRight :
            probe = [f |-> "dedupe_key", arg |-> <<p1, p2>>, res |-> <<>>]
       \/ \E st \in SearchStores, args \in SearchLines :
            probe = [f |-> "search", arg |-> <<st, args>>, res |-> <<>>]
       \/ \E t \in RangeTexts, fld \in RangeFields :
            probe = [f |-> "parse_range", arg |-> <<t, fld>>, res |-> <<>>]

ProbeValidate ==
    /\ pc = "probe"
    /\ probe.f = "validate_part"
    /\ probe' = [probe EXCEPT !.res = validate_part(probe.arg)]
    /\ pc' = "probed"
    /\ UNCHANGED <<file, db, target, last, writes, assigned>>

ProbeDedupe ==
    /\ pc = "probe"
    /\ probe.f = "dedupe_key"
    /\ probe' = [probe EXCEPT !.res = <<dedupe_key(probe.arg[1]), dedupe_key(probe.arg[2])>>]
    /\ pc' = "probed"
    /\ UNCHANGED <<file, db, target, last, writes, assigned>>

\* the search branch of repl on a loaded dict
ProbeSearch ==
    /\ pc = "probe"
    /\ probe.f = "search"
    /\ \E d \in {WithParts(empty_db, probe.arg[1])},
          a \in {SearchParse(probe.arg[2], 1, <<>>, None)} :
        probe' = [probe EXCEPT !.res = IF Len(probe.arg[2]) < 1 THEN Out("search", "Usage")
                                       ELSE action_search(d, a.keywords, a.category)]
    /\ pc' = "probed"
    /\ UNCHANGED <<file, db, target, last, writes, assigned>>

\* parse_range on a text typed at the range prompt of one field and, when it
\* returns, validate_part on the part that holds the range
ProbeParse ==
    /\ pc = "probe"
    /\ probe.f = "parse_range"
    /\ \E r \in {parse_range(probe.arg[1].text, IF probe.arg[2] = "voltage" THEN DefVoltageUnit
                                                 ELSE DefCurrentUnit)},
          other \in {RangeSpec(F(0), F(1), <<"X">>)} :
        probe' = [probe EXCEPT !.res =
                    [parsed |-> r,
                     validated |->
                        IF ~r.ok THEN [ok |-> FALSE, err |-> "", val |-> NoPart]
                        ELSE IF probe.arg[2] = "voltage"
                        THEN validate_part(Part(<<"r">>, <<"k">>, r.val, other, 1, <<>>))
                        ELSE validate_part(Part(<<"r">>, <<"k">>, other, r.val, 1, <<>>))]]
    /\ pc' = "probed"
    /\ UNCHANGED <<file, db, target, last, writes, assigned>>

NextPure == ProbeValidate \/ ProbeDedupe \/ ProbeSearch \/ ProbeParse

SpecPure == InitPure /\ [][NextPure]_vars

---------------------------------------------------------------------------
(* Properties *)

\* the part records the file holds
Stored(f) ==
    IF f.kind = "record" /\ Has(f.data, "parts") /\ f.data["parts"][1] = "list"
    THEN f.data["parts"][2]
    ELSE <<>>

\* the positions of the decodable records that have the dedupe key of p
KeyMatches(parts, p) ==
    {i \in 1..Len(parts) :
        Decodable(parts[i]) /\ dedupe_key(part_from_dict(parts[i])) = dedupe_key(p)}

Least(S) == CHOOSE m \in S : \A x \in S : m <= x
Greatest(S) == CHOOSE m \in S : \A x \in S : x <= m

\* the id of a record, a missing or non-numeric id counting as 0
IdOrZero(d) == IF Has(d, "id") /\ d["id"][1] = "int" THEN d["id"][2] ELSE 0

\* a step in which action_add runs with a candidate that validate_part accepted
AddStep == pc = "add" /\ last'.cmd = "add" /\ last'.msg \in {"Merged", "Added"}

\* C1: an add whose validated candidate has the dedupe key of an existing
\* decodable record adds the candidate's quantity to (the first) such record,
\* keeps the number of records, leaves every other field of that record and
\* every other record as they were, and saves the result.
C1_AddMerges ==
    [][(AddStep /\ KeyMatches(Stored(file), last'.part) # {}) =>
        LET old == Stored(file)
            new == Stored(file')
            p == last'.part
            m == Least(KeyMatches(old, p))
        IN  /\ Len(new) = Len(old)
            /\ \A j \in 1..Len(old) : j # m => new[j] = old[j]
            /\ new[m] = [old[m] EXCEPT !["quantity"] = old[m]["quantity"] + p.quantity]
            /\ writes' = 1
            /\ file' = FileOf(db')
            /\ last'.msg = "Merged"]_vars

C1_Witness ==
    /\ pc = "prompt" /\ last.cmd = "add" /\ last.msg = "Merged"
    /\ Len(Stored(file)) >= 2
    /\ \E i \in 1..Len(Stored(file)) : ~Decodable(Stored(file)[i])

\* C2: an add whose validated candidate matches no existing decodable record
\* appends exactly one record, the candidate with id 1 + the greatest existing
\* id (a missing or non-numeric id counting as 0), at the end of the parts,
\* and leaves the existing records as they were.
C2_AddAppends ==
    [][(AddStep /\ KeyMatches(Stored(file), last'.part) = {}) =>
        LET old == Stored(file)
            new == Stored(file')
            p == last'.part
            nid == 1 + Greatest({IdOrZero(old[i]) : i \in 1..Len(old)} \cup {0})
        IN  /\ Len(new) = Len(old) + 1
            /\ \A j \in 1..Len(old) : new[j] = old[j]
            /\ new[Len(new)] = [id |-> JInt(nid), category |-> p.category, name |-> p.name,
                                voltage |-> p.voltage, current |-> p.current,
                                quantity |-> p.quantity, notes |-> p.notes]
            /\ last'.msg = "Added" /\ last'.id = nid
            /\ writes' = 1
            /\ file' = FileOf(db')]_vars

C2_Witness ==
    /\ pc = "prompt" /\ last.cmd = "add" /\ last.msg = "Added" /\ last.id = 1
    /\ Len(Stored(file)) = 2
    /\ Has(Stored(file)[1], "id") /\ Stored(file)[1]["id"] = JStr

C2_WitnessEmptyStore ==
    /\ pc = "prompt" /\ last.cmd = "add" /\ last.msg = "Added" /\ last.id = 1
    /\ Len(Stored(file)) = 1

\* C3: an id that was assigned to a created record is never assigned to a
\* record created later.
C3_IdsNeverReused ==
    [][(pc = "add" /\ last'.cmd = "add" /\ last'.msg = "Added") => last'.id \notin assigned]_vars

\* C4: remove with a decrement n > 0 on an existing id whose quantity is q
\* deletes the record if n >= q and otherwise keeps it, in place, with
\* quantity q - n and its other fields unchanged; the other records are
\* unchanged and the result is saved.
C4_RemoveDecrement ==
    [][(/\ pc = "prompt" /\ last'.cmd = "remove" /\ last'.n > 0
        /\ \E j \in 1..Len(Stored(file)) : IdOrZero(Stored(file)[j]) = last'.id) =>
        LET old == Stored(file)
            new == Stored(file')
            n == last'.n
            i == Least({j \in 1..Len(old) : IdOrZero(old[j]) = last'.id})
            q == old[i]["quantity"]
        IN  /\ IF n >= q
               THEN /\ Len(new) = Len(old) - 1
                    /\ \A j \in 1..Len(new) : new[j] = IF j < i THEN old[j] ELSE old[j + 1]
               ELSE new = [old EXCEPT ![i] = [old[i] EXCEPT !["quantity"] = q - n]]
            /\ writes' = 1
            /\ file' = FileOf(db')]_vars

C4_Witness ==
    /\ pc = "prompt" /\ last.cmd = "remove" /\ last.msg = "Decremented." /\ last.n = 1
    /\ Len(Stored(file)) = 2

C4_WitnessDeleted ==
    /\ pc = "prompt" /\ last.cmd = "remove" /\ last.msg = "Quantity hit 0; removed."
    /\ Len(Stored(file)) = 1

\* C5: no two records of the store have equal dedupe keys.
C5_NoDuplicateKeys ==
    \A i, j \in 1..Len(Stored(file)) :
        (i < j /\ Decodable(Stored(file)[i]) /\ Decodable(Stored(file)[j])) =>
            dedupe_key(part_from_dict(Stored(file)[i])) # dedupe_key(part_from_dict(Stored(file)[j]))

\* C6: every persisted record has a category and a name that are non-empty
\* after trimming, a quantity >= 1, non-negative voltage and current bounds,
\* and min <= max in both ranges.
C6_PartInvariants ==
    \A i \in 1..Len(Stored(file)) :
        LET d == Stored(file)[i]
        IN  /\ Strip(d["category"]) # <<>>
            /\ Strip(d["name"]) # <<>>
            /\ d["quantity"] >= 1
            /\ FLe(F(0), d["voltage"].min) /\ FLe(F(0), d["voltage"].max)
            /\ FLe(F(0), d["current"].min) /\ FLe(F(0), d["current"].max)
            /\ FLe(d["voltage"].min, d["voltage"].max)
            /\ FLe(d["current"].min, d["current"].max)

\* C7: validate fails with the error of the first violated check in the order
\* category, name, quantity, voltage, current, and returns the normalized part
\* when no check is violated.
C7_ValidateFirstViolation ==
    (pc = "probed" /\ probe.f = "validate_part") =>
        LET p == probe.arg
            r == probe.res
            negative(x) == ~IsNaN(x) /\ x[2] < 0
            violated == <<Strip(p.category) = <<>>,
                          Strip(p.name) = <<>>,
                          p.quantity <= 0,
                          negative(p.voltage.min) \/ negative(p.voltage.max),
                          negative(p.current.min) \/ negative(p.current.max)>>
            message == <<"category is required", "name is required", "quantity must be > 0",
                         "voltage cannot be negative", "current cannot be negative">>
            bad == {k \in 1..5 : violated[k]}
        IN  IF bad = {} THEN r.ok /\ r.val = PartNormalized(p)
            ELSE ~r.ok /\ r.err = message[Least(bad)]

C7_Witness ==
    /\ pc = "probed" /\ probe.f = "validate_part"
    /\ Strip(probe.arg.name) = <<>> /\ probe.arg.quantity <= 0
    /\ probe.arg.voltage.max = F(0 - 1) /\ Strip(probe.arg.category) # <<>>
    /\ probe.res.err = "name is required"

C7_WitnessAccepted ==
    /\ pc = "probed" /\ probe.f = "validate_part"
    /\ probe.res.ok /\ probe.arg.category = <<" ", "R", " ">>

\* C8: two parts whose categories and names are equal up to letter case and
\* surrounding blanks and whose voltage and current ranges are equal after
\* normalization have the same dedupe key, whatever the order of the bounds
\* given and whatever their quantity and notes.
C8_SameKey ==
    (pc = "probed" /\ probe.f = "dedupe_key") =>
        LET p1 == probe.arg[1]
            p2 == probe.arg[2]
            alike(a, b) == Strip(Lower(a)) = Strip(Lower(b))
        IN  (/\ alike(p1.category, p2.category)
             /\ alike(p1.name, p2.name)
             /\ RangeNormalized(p1.voltage) = RangeNormalized(p2.voltage)
             /\ RangeNormalized(p1.current) = RangeNormalized(p2.current))
            => probe.res[1] = probe.res[2]

C8_Witness ==
    /\ pc = "probed" /\ probe.f = "dedupe_key"
    /\ probe.arg[1].voltage.min = F(1) /\ probe.arg[2].voltage.min = F(24)
    /\ probe.arg[1].category # probe.arg[2].category
    /\ probe.arg[1].name # probe.arg[2].name
    /\ probe.arg[1].quantity # probe.arg[2].quantity
    /\ probe.arg[1].notes # probe.arg[2].notes
    /\ probe.res[1] = probe.res[2]

\* the cases in which load is to fail over to the empty database
FailoverCase(f) ==
    \/ f.kind \in {"missing", "notutf8", "notjson", "notrecord"}
    \/ f.kind = "record" /\ (~Has(f.data, "parts") \/ f.data["parts"][1] # "list")

\* C9: load never raises and returns the empty database (version = 1, no
\* parts) when the file does not exist, is not valid structured data, is not
\* a record at top level, or has no "parts" sequence.
C9_LoadFailsOver ==
    (last.cmd = "start" /\ FailoverCase(file)) => (pc # "crashed" /\ db = empty_db)

\* what a command that ends in a validation error prints
ValidationError(o) ==
    \/ o.msg \in {"Usage", "Decrement must be > 0."}
    \/ o.msg = "Error" /\ o.err \in {"invalid literal for int()", "category is required",
                                     "name is required", "quantity must be > 0",
                                     "voltage cannot be negative", "current cannot be negative"}

\* C10: a command that ends in a validation error leaves the file as it was,
\* writes nothing, and the loop goes on to read the next command.
C10_ErrorLeavesStore ==
    [][ValidationError(last') => (file' = file /\ writes' = 0 /\ pc' = "prompt")]_vars

C10_Witness ==
    /\ pc = "prompt" /\ last.cmd = "remove" /\ last.msg = "Decrement must be > 0."
    /\ Len(Stored(file)) = 2

C10_WitnessRejected ==
    /\ pc = "prompt" /\ last.cmd = "edit" /\ last.msg = "Error"
    /\ last.err = "voltage cannot be negative"

\* a record that decodes and has an integer id
WellFormed(d) == Decodable(d) /\ Has(d, "id") /\ d["id"][1] = "int"

\* a record whose id is non-numeric or that lacks a required field
Damaged(d) == ~Decodable(d) \/ (Has(d, "id") /\ d["id"][1] # "int")

\* the positions of the well-formed records with id i
WellFormedAt(parts, i) == {j \in 1..Len(parts) : WellFormed(parts[j]) /\ parts[j]["id"] = JInt(i)}

\* C11: in a store that holds a damaged record, show, remove and edit for the
\* id of a well-formed record report no error and act on that record,
\* wherever it sits relative to the damaged one.
C11_DamageNeverRaised ==
    [][(/\ pc = "prompt" /\ last'.cmd \in {"show", "remove", "edit"} /\ last'.id > 0
        /\ WellFormedAt(Stored(file), last'.id) # {}
        /\ \E j \in 1..Len(Stored(file)) : Damaged(Stored(file)[j])) =>
        LET old == Stored(file)
            new == Stored(file')
            i == Least(WellFormedAt(old, last'.id))
        IN  /\ last'.msg \notin {"Error", "Not found."}
            /\ last'.cmd = "show" => last'.rows = <<i>>
            /\ last'.cmd = "edit" => target' = i
            /\ last'.cmd = "remove" =>
                 IF last'.msg = "Decremented."
                 THEN Len(new) = Len(old) /\ \A j \in 1..Len(old) : (new[j] # old[j]) <=> (j = i)
                 ELSE new = RemoveAt(old, i)]_vars

\* C12: a record that lacks a required field is skipped by list, search and
\* the merge scan of add, and stays in the file with the same content and the
\* same place among the records that remain, whatever the command, until a
\* remove names its id.
C12_MalformedKept ==
    [][\A j \in 1..Len(Stored(file)) :
        (/\ pc \in {"prompt", "add", "edit"}
         /\ ~Decodable(Stored(file)[j])
         /\ ~(last'.cmd = "remove" /\ JInt(last'.id) = Stored(file)[j]["id"])) =>
            LET old == Stored(file)
                new == Stored(file')
            IN  /\ \/ Len(new) >= Len(old) /\ new[j] = old[j]
                   \/ \E k \in 1..Len(old) : k # j /\ new = RemoveAt(old, k)
                /\ last'.cmd \in {"list", "search"} =>
                     \A r \in 1..Len(last'.rows) : last'.rows[r] # j]_vars

C12_Witness ==
    /\ pc = "prompt" /\ last.cmd = "remove" /\ last.msg = "Deleted." /\ last.id = 1
    /\ Len(Stored(file)) = 1 /\ Stored(file)[1] = NoNameRec2

C12_WitnessMerged ==
    /\ pc = "prompt" /\ last.cmd = "add" /\ last.msg = "Merged"
    /\ Len(Stored(file)) = 2 /\ Stored(file)[2] = NoNameRec2

C12_WitnessListed ==
    /\ pc = "prompt" /\ last.cmd = "list" /\ last.rows = <<1>>
    /\ Len(Stored(file)) = 2 /\ Stored(file)[2] = NoNameRec2

\* the fields of a record that action_edit overwrites
EditedKeys == {"category", "name", "voltage", "current", "quantity", "notes"}

\* C13: a successful edit overwrites category, name, voltage, current,
\* quantity and notes of the record with the re-validated values and leaves
\* its id, its position, the number of records and every other record as they
\* were; an edit whose re-validation fails overwrites nothing.
C13_EditInPlace ==
    [][(pc = "edit" /\ last'.cmd = "edit" /\ last'.msg \in {"Updated.", "Error"}) =>
        LET old == Stored(file)
            new == Stored(file')
            p == last'.part
        IN  IF last'.msg = "Updated."
            THEN /\ Len(new) = Len(old)
                 /\ \A j \in 1..Len(old) : j # target => new[j] = old[j]
                 /\ DOMAIN new[target] = DOMAIN old[target]
                 /\ \A k \in EditedKeys : new[target][k] = p[k]
                 /\ new[target]["id"] = old[target]["id"]
                 /\ last'.id = old[target]["id"][2]
                 /\ writes' = 1
            ELSE file' = file /\ writes' = 0]_vars

C13_Witness ==
    /\ pc = "prompt" /\ last.cmd = "edit" /\ last.msg = "Updated." /\ last.id = 1
    /\ Len(Stored(file)) = 2
    /\ Stored(file)[1]["notes"] = <<"n">> /\ Stored(file)[1]["quantity"] = 2
    /\ Stored(file)[2]["notes"] = <<>>

C13_WitnessRenamed ==
    /\ pc = "prompt" /\ last.cmd = "edit" /\ last.msg = "Updated." /\ last.id = 2
    /\ Len(Stored(file)) = 2
    /\ Stored(file)[2]["category"] = <<"R">>
    /\ Stored(file)[2]["voltage"] = RangeSpec(F(1), F(24), <<"V">>)

C13_WitnessRejected ==
    /\ pc = "prompt" /\ last.cmd = "edit" /\ last.msg = "Error"
    /\ last.err = "current cannot be negative" /\ Len(Stored(file)) = 2

\* the commands that repl dispatches after it has re-loaded the file
Dispatched == {"add", "list", "search", "show", "remove", "edit"}

\* C14: every dispatched command works on the database loaded from the file
\* as it is when the command is read, whatever an earlier command left in
\* memory, and when a mutating add, remove or edit has completed the file
\* holds the database that action produced.
C14_ReloadAndWriteBack ==
    [][/\ (pc = "prompt" /\ last'.cmd \in Dispatched /\ pc' # "crashed") =>
            LET old == PartsOf(load_db(file).db)
                new == PartsOf(db')
            IN  IF writes' = 0
                THEN /\ db' = load_db(file).db
                     /\ file' = file
                     /\ last'.cmd \in {"list", "search", "show"} =>
                            \A r \in 1..Len(last'.rows) :
                                last'.rows[r] \in 1..Len(old) /\ Decodable(old[last'.rows[r]])
                     /\ last'.msg \in {"Shown", "Editing"} =>
                            \E i \in 1..Len(old) :
                                /\ old[i]["id"] = JInt(last'.id)
                                /\ IF last'.cmd = "show" THEN last'.rows = <<i>> ELSE target' = i
                ELSE /\ file' = FileOf(db')
                     /\ \E k \in 1..Len(old) :
                            /\ old[k]["id"] = JInt(last'.id)
                            /\ \/ new = RemoveAt(old, k)
                               \/ Len(new) = Len(old) /\ \A j \in 1..Len(old) : j # k => new[j] = old[j]
       /\ (pc \in {"add", "edit"} /\ writes' > 0) =>
            /\ db = load_db(file).db
            /\ file' = FileOf(db')]_vars

C14_Witness ==
    /\ pc = "prompt" /\ last.cmd = "remove" /\ last.msg = "Deleted." /\ last.id = 1
    /\ assigned # {}
    /\ Stored(file) = <<NoNameRec2>>

C14_WitnessListed ==
    /\ pc = "prompt" /\ last.cmd = "list" /\ last.rows = <<1>>
    /\ assigned = {1, 2}
    /\ Stored(file) = <<BadIdRec>>

C14_WitnessAdded ==
    /\ pc = "prompt" /\ last.cmd = "add" /\ last.msg = "Added" /\ last.id = 1
    /\ Len(Stored(file)) = 2 /\ Stored(file)[1] = BadIdRec
    /\ assigned = {1, 2}

\* C15: while add or edit waits at its prompts, and when it is abandoned there
\* by an error, an end of input or an interrupt, the file is as it was before
\* the command and nothing has been written; a step that changes the file is
\* the one write of an action that has completed and leaves in the file the
\* whole dict the action produced.
C15_NeverPartial ==
    [][/\ writes' <= 1
       /\ pc' \in {"add", "edit"} => (file' = file /\ writes' = 0)
       /\ (pc \in {"add", "edit"} /\ (last'.msg = "Error" \/ pc' = "crashed")) =>
            (file' = file /\ writes' = 0)
       /\ file' # file =>
            /\ writes' = 1 /\ pc' = "prompt"
            /\ last'.msg \in {"Added", "Merged", "Updated.", "Deleted.", "Decremented.",
                              "Quantity hit 0; removed."}
            /\ file' = FileOf(db')
            /\ db' \in {action_add(db, last'.part).db,
                        action_remove(load_db(file).db, last'.id, NoInt).db,
                        action_remove(load_db(file).db, last'.id, SomeInt(last'.n)).db}
                       \cup {action_edit(db, t, last'.part).db : t \in {target} \ {0}}]_vars

C15_Witness ==
    /\ pc = "prompt" /\ last.cmd = "edit" /\ last.msg = "Error" /\ last.err = "EOF"
    /\ Len(Stored(file)) = 2

C15_WitnessWaiting ==
    /\ pc = "add" /\ writes = 0 /\ Len(Stored(file)) = 2

C15_WitnessInterrupted ==
    /\ pc = "crashed" /\ last.cmd = "add" /\ Len(Stored(file)) = 1

\* C16: when the wait for a line is interrupted, at the command prompt or at
\* a follow-up prompt of add or edit, by a keyboard interrupt or an end of
\* input, the program reaches its normal exit.
C16_InterruptExits ==
    [][(ReadInterrupted \/ FollowupEOF \/ FollowupInterrupt) => pc' = "exited"]_vars

\* the positions of the records whose id is i
IdAt(parts, i) == {j \in 1..Len(parts) : IdOrZero(parts[j]) = i}

\* C17: help, list, search, show and an unknown command leave the file and
\* every record as they were and write nothing; show, remove and edit naming
\* an id that no record has answer "Not found.", not an error, and leave the
\* file and every record as they were and write nothing.
C17_ReadOnlyCommands ==
    [][/\ (pc = "prompt" /\ last'.cmd \in {"help", "list", "search", "show", "?"}) =>
            (file' = file /\ writes' = 0 /\ PartsOf(db') = Stored(file) /\ pc' = "prompt")
       /\ (/\ pc = "prompt" /\ last'.cmd \in {"show", "remove", "edit"} /\ last'.id > 0
           /\ IdAt(Stored(file), last'.id) = {}) =>
            /\ last'.msg = "Not found."
            /\ file' = file /\ writes' = 0 /\ PartsOf(db') = Stored(file) /\ pc' = "prompt"]_vars

C17_Witness ==
    /\ pc = "prompt" /\ last.cmd = "remove" /\ last.msg = "Not found." /\ last.id = 3
    /\ Len(Stored(file)) = 2

C17_WitnessEdit ==
    /\ pc = "prompt" /\ last.cmd = "edit" /\ last.msg = "Not found." /\ last.id = 2
    /\ Len(Stored(file)) = 1

C17_WitnessShown ==
    /\ pc = "prompt" /\ last.cmd = "show" /\ last.msg = "Shown" /\ last.rows = <<2>>

C17_WitnessUnknown ==
    /\ pc = "prompt" /\ last.cmd = "?" /\ Len(Stored(file)) = 2

\* the tokens of a search line that are keywords, and its category filter:
\* "--cat" followed by a token names the category, every other token is a keyword
KeywordsOf(args) ==
    LET flag == <<"-", "-", "c", "a", "t">>
        isFlag(i) == args[i] = flag /\ i < Len(args) /\ (i = 1 \/ args[i - 1] # flag)
    IN  {args[i] : i \in {j \in 1..Len(args) : ~isFlag(j) /\ ~(j > 1 /\ isFlag(j - 1))}}

CategoryOf(args) ==
    LET flag == <<"-", "-", "c", "a", "t">>
        at == {i \in 1..(Len(args) - 1) : args[i] = flag}
    IN  IF at = {} THEN <<>> ELSE <<args[Greatest(at) + 1]>>

\* category, name, notes and the formatted ranges of a record, in one text
Haystack(d) ==
    d["category"] \o <<" ">> \o d["name"] \o <<" ">> \o d["notes"] \o <<" ">>
    \o RangeFmt(d["voltage"]) \o <<" ">> \o RangeFmt(d["current"])

\* C18: search shows, in storage order, exactly the decodable records that
\* pass the category filter, if one is given, and whose text holds every
\* keyword, letter case apart; with no keyword left it shows every decodable
\* record that passes the filter.
C18_SearchRows ==
    (pc = "probed" /\ probe.f = "search" /\ Len(probe.arg[2]) >= 1) =>
        LET parts == probe.arg[1]
            kws == KeywordsOf(probe.arg[2])
            cat == CategoryOf(probe.arg[2])
            rows == probe.res.rows
            hit == {i \in 1..Len(parts) :
                      /\ Decodable(parts[i])
                      /\ cat # <<>> => Lower(parts[i]["category"]) = Lower(cat[1])
                      /\ \A k \in kws : IsSubstring(Lower(k), Lower(Haystack(parts[i])))}
        IN  /\ {rows[r] : r \in 1..Len(rows)} = hit
            /\ \A r \in 1..(Len(rows) - 1) : rows[r] < rows[r + 1]

C18_Witness ==
    /\ pc = "probed" /\ probe.f = "search"
    /\ probe.arg[2] = <<<<"2", "4", "v">>, <<"r">>>>
    /\ Len(probe.arg[1]) = 3 /\ probe.res.rows = <<3>>

C18_WitnessNoKeyword ==
    /\ pc = "probed" /\ probe.f = "search"
    /\ probe.arg[2] = <<<<"-", "-", "c", "a", "t">>, <<"R">>>>
    /\ Len(probe.arg[1]) = 3 /\ probe.res.rows = <<1, 3>>

C18_WitnessFiltered ==
    /\ pc = "probed" /\ probe.f = "search"
    /\ probe.arg[2] = <<<<"k">>, <<"-", "-", "c", "a", "t">>, <<"s">>>>
    /\ Len(probe.arg[1]) = 3 /\ probe.res.rows = <<2>>

\* C19: the range parser accepts a text whose first bound is above the second
\* and a text that holds a negative number, and returns the bounds as they
\* are written; normalization puts the bounds in order, and validate rejects
\* the part whose range has a negative bound with the error that names the
\* field.
C19_ParseThenValidate ==
    (pc = "probed" /\ probe.f = "parse_range") =>
        LET c == probe.arg[1]
            fld == probe.arg[2]
            r == probe.res.parsed
            v == probe.res.validated
        IN  /\ r.ok
            /\ r.val.min = F(c.lo) /\ r.val.max = F(c.hi)
            /\ IF c.lo < 0 \/ c.hi < 0
               THEN ~v.ok /\ v.err = (IF fld = "voltage" THEN "voltage cannot be negative"
                                      ELSE "current cannot be negative")
               ELSE /\ v.ok
                    /\ v.val[fld].min = F(IF c.lo <= c.hi THEN c.lo ELSE c.hi)
                    /\ v.val[fld].max = F(IF c.lo <= c.hi THEN c.hi ELSE c.lo)

\* C20: the ids of the records in the store are pairwise distinct positive
\* integers, so that an id names at most one record.
C20_DistinctIds ==
    LET parts == Stored(file)
    IN  /\ \A i \in 1..Len(parts) :
            Has(parts[i], "id") /\ parts[i]["id"][1] = "int" /\ parts[i]["id"][2] >= 1
        /\ \A i, j \in 1..Len(parts) : i # j => parts[i]["id"] # parts[j]["id"]
        /\ \A n \in 1..(MaxId + 1) : Cardinality(IdAt(parts, n)) <= 1

C20_Witness ==
    /\ pc = "prompt" /\ last.cmd = "remove" /\ last.msg = "Deleted." /\ last.id = 1
    /\ Len(Stored(file)) = 1 /\ Stored(file)[1]["id"] = JInt(2)
    /\ assigned = {1, 2}

C20_WitnessEdited ==
    /\ pc = "prompt" /\ last.cmd = "edit" /\ last.msg = "Updated." /\ last.id = 2
    /\ Len(Stored(file)) = 2
    /\ dedupe_key(part_from_dict(Stored(file)[1])) = dedupe_key(part_from_dict(Stored(file)[2]))

=============================================================================
